---- MODULE Spec2Model ----
(***************************************************************************)
(* django-fieldsignals: the ChangedSignal channels pre_save_changed and    *)
(* post_save_changed of fieldsignals/signals.py, with the part of the host *)
(* framework they are wired into (the receiver lists of django.dispatch    *)
(* Signal, the post_init / pre_save / post_save events, model instances).  *)
(*                                                                         *)
(* Python values are written as strings: "None" is None, "[]" and "[1]"    *)
(* are lists, TextStamp is a str holding a timestamp, Stamp the datetime   *)
(* it parses to.                                                           *)
(***************************************************************************)
EXTENDS Integers, Sequences, FiniteSets, TLC

VARIABLES
    models_ready,        \* apps.models_ready
    receivers,           \* [channel -> Signal.receivers of that ChangedSignal]
    post_init_receivers, \* post_init.receivers (the primers)
    source_receivers,    \* pre_save.receivers and post_save.receivers
    classes,             \* the model classes: their class attributes
    objs,                \* the model instances
    calls,               \* the listener invocations made by the last operation
    last,                \* the last operation and its outcome
    hist,                \* per instance: what was true when it was initialized
    nconnect,            \* successful connect calls made
    nops                 \* instance operations made

vars == <<models_ready, receivers, post_init_receivers, source_receivers,
          classes, objs, calls, last, hist, nconnect, nops>>

----------------------------------------------------------------------------
(* Bounds *)

\* connect calls that succeed and instance operations, together
MaxSteps == 4

----------------------------------------------------------------------------
(* Values *)

None == "None"
TextStamp == "2017-01-01T00:00:00.000000Z"
Stamp == "datetime(2017, 1, 1, 0, 0, tzinfo=utc)"
ListValues == {"[]", "[1]"}

type_of(v) ==
    IF v = None THEN "NoneType"
    ELSE IF v \in ListValues THEN "list"
    ELSE IF v = Stamp THEN "datetime"
    ELSE "str"

\* the whitelist with list taken for immutable
WHITELIST_WITH_LIST == {"tuple", "frozenset", "float", "str", "int", "list"}

IMMUTABLE_TYPES_WHITELIST == {"tuple", "frozenset", "float", "str", "int"}

\* maps (Python dicts)
EmptyDict == [x \in {} |-> x]
DictSet(d, k, v) == [x \in (DOMAIN d) \cup {k} |-> IF x = k THEN v ELSE d[x]]
DictGet(d, k, default) == IF k \in DOMAIN d THEN d[k] ELSE default

----------------------------------------------------------------------------
(* The record types and their declared fields (sender._meta.get_fields()),  *)
(* in the shape of the fakes of tests/test_signals.py.                      *)

Senders == {"FakeModel", "FakeModelWithOneToOne"}
Channels == {"pre_save_changed", "post_save_changed"}
Listeners == {"func", "func2", "resaver", "raising_func"}

\* the listeners whose body sends the source signal of their channel again,
\* for the instance they were called with
Resending == {"resaver"}

\* the listener that raises: def func(*args, **kwargs): raise Called
Raising == {"raising_func"}

\* the exception class of the raising listener
Called == "Called"
Instances == {"obj", "obj2"}

Field(name, m2m) ==
    [name |-> name, attname |-> name, many_to_many |-> m2m,
     one_to_many |-> FALSE, rel |-> FALSE, cls |-> "Field"]

DateTimeField(name) ==
    [name |-> name, attname |-> name, many_to_many |-> FALSE,
     one_to_many |-> FALSE, rel |-> FALSE, cls |-> "DateTimeField"]

MockOneToOneRel(name) ==
    [name |-> name, attname |-> name, many_to_many |-> FALSE,
     one_to_many |-> FALSE, rel |-> TRUE, cls |-> "OneToOneRel"]

get_fields(sender) ==
    IF sender = "FakeModel"
    THEN <<Field("a_key", FALSE), Field("another", FALSE), Field("m2m", TRUE),
           DateTimeField("a_datetime")>>
    ELSE <<Field("f", FALSE), MockOneToOneRel("o2o")>>

\* the class attributes as the class statements leave them
class_defaults(sender) ==
    IF sender = "FakeModel"
    THEN [a_key |-> "a value", another |-> "something else", m2m |-> "[]",
          a_datetime |-> None]
    ELSE [f |-> "a value", o2o |-> "1"]

\* the class attributes that hold an object that can change in place: every
\* instance reads that one object until the attribute is rebound on it
ClassHeld(sender) ==
    {name \in DOMAIN class_defaults(sender) :
        type_of(class_defaults(sender)[name]) = "list"}

\* the values the callers assign to an attribute (they rebind no attribute
\* that holds the class's own list)
AssignableValues(name) ==
    IF name = "a_key" THEN {"another value"}
    ELSE IF name = "another" THEN {"[]"}
    ELSE IF name = "a_datetime" THEN {None, TextStamp, Stamp}
    ELSE IF name = "m2m" THEN {}
    ELSE {None}

\* the fields a query may leave unloaded, for the instances that can tell
DeferrableFields(sender) == IF sender = "FakeModel" THEN {"another"} ELSE {}

\* the classes that define get_deferred_fields (FakeModelWithOneToOne does not)
has_get_deferred_fields(sender) == sender = "FakeModel"

\* AttributeError: '<class>' object has no attribute '<name>'
AttributeError(cls, name) ==
    "AttributeError: '" \o cls \o "' object has no attribute '" \o name \o "'"

----------------------------------------------------------------------------
(* django.dispatch.Signal.connect and the receivers of one sender           *)

Signal_connect(rs, lookup_key, receiver) ==
    IF \E n \in 1..Len(rs) : rs[n].key = lookup_key
    THEN rs
    ELSE Append(rs, [key |-> lookup_key, r |-> receiver])

\* a receiver connected with sender None receives from every sender
live_receivers(rs, sender) ==
    SelectSeq(rs, LAMBDA e : e.key.sender = None \/ e.key.sender = sender)

----------------------------------------------------------------------------
(* ChangedSignal.connect                                                    *)

\* the arguments the callers pass: fields is None or a list of names,
\* dispatch_uid is None or a name
NoFields == [given |-> FALSE, names |-> {}]
Names(ns) == [given |-> TRUE, names |-> ns]

ConnectArgs(channels, listeners, senders, fields, weak, dispatch_uids) ==
    [channel : channels, receiver : listeners, sender : senders, fields : fields,
     weak : weak, dispatch_uid : dispatch_uids]

is_reverse_rel(f) == f.many_to_many \/ f.one_to_many \/ f.rel

\* resolve_fields keeping every declared field when no list is given
resolve_fields_unfiltered(sender, fields) ==
    IF ~fields.given
    THEN get_fields(sender)
    ELSE SelectSeq(get_fields(sender), LAMBDA f : f.name \in fields.names)

resolve_fields(sender, fields) ==
    IF ~fields.given
    THEN SelectSeq(get_fields(sender), LAMBDA f : ~is_reverse_rel(f))
    ELSE SelectSeq(get_fields(sender), LAMBDA f : f.name \in fields.names)

\* connect_error raising for reverse related fields only when no other field
\* is named with them
connect_error_all_reverse(sender, fields, weak) ==
    IF ~models_ready THEN "AppRegistryNotReady"
    ELSE IF weak THEN "NotImplementedError"
    ELSE IF sender \notin Senders THEN "ValueError: sender should be a model class"
    ELSE LET resolved == resolve_fields(sender, fields)
         IN IF fields.given /\ resolved # <<>>
                /\ \A n \in 1..Len(resolved) : is_reverse_rel(resolved[n])
            THEN "ValueError: django-fieldsignals doesn't handle reverse related fields"
            ELSE IF resolved = <<>> THEN "ValueError: fields must be non-empty"
            ELSE "ok"

\* connect_error with the weak test made before the readiness test
connect_error_weak_first(sender, fields, weak) ==
    IF weak THEN "NotImplementedError"
    ELSE IF ~models_ready THEN "AppRegistryNotReady"
    ELSE IF sender \notin Senders THEN "ValueError: sender should be a model class"
    ELSE LET resolved == resolve_fields(sender, fields)
         IN IF fields.given /\ \E n \in 1..Len(resolved) : is_reverse_rel(resolved[n])
            THEN "ValueError: django-fieldsignals doesn't handle reverse related fields"
            ELSE IF resolved = <<>> THEN "ValueError: fields must be non-empty"
            ELSE "ok"

\* the exception connect raises for these arguments, or "ok"
connect_error(sender, fields, weak) ==
    IF ~models_ready THEN "AppRegistryNotReady"
    ELSE IF weak THEN "NotImplementedError"
    ELSE IF sender \notin Senders THEN "ValueError: sender should be a model class"
    ELSE LET resolved == resolve_fields(sender, fields)
         IN IF fields.given /\ \E n \in 1..Len(resolved) : is_reverse_rel(resolved[n])
            THEN "ValueError: django-fieldsignals doesn't handle reverse related fields"
            ELSE IF resolved = <<>> THEN "ValueError: fields must be non-empty"
            ELSE "ok"

\* the proxy is a closure made anew by each connect: id is its identity
_make_proxy_receiver(channel, receiver, sender, fields) ==
    [signal |-> channel, _original_receiver |-> receiver, _fields |-> fields,
     id |-> nconnect + 1]

\* the key Signal.connect files the proxy under: the dispatch_uid when one is
\* given, else the identity of the proxy
proxy_lookup_key(proxy_receiver, sender, dispatch_uid) ==
    IF dispatch_uid = None
    THEN [id |-> proxy_receiver.id, sender |-> sender]
    ELSE [uid |-> dispatch_uid, sender |-> sender]

post_init_closure(channel, receiver, fields) ==
    [signal |-> channel, receiver |-> receiver, fields |-> fields]

\* the source signal a channel listens to
source_signal(channel) ==
    IF channel = "pre_save_changed" THEN "pre_save" ELSE "post_save"

connect_source_signals(channel, sender) ==
    [source_receivers EXCEPT ![source_signal(channel)] =
        Signal_connect(@, [uid |-> channel, sender |-> sender], channel)]

\* connect with the primer attached before the fields are validated
connect_attach_early(channel, receiver, sender, fields, weak, dispatch_uid) ==
    LET err == connect_error(sender, fields, weak)
        resolved == resolve_fields(sender, fields)
        proxy_receiver == _make_proxy_receiver(channel, receiver, sender, resolved)
        primed == Signal_connect(post_init_receivers,
                      [uid |-> <<channel, receiver>>, sender |-> sender],
                      post_init_closure(channel, receiver, resolved))
    IN IF err \in {"AppRegistryNotReady", "NotImplementedError",
                   "ValueError: sender should be a model class"}
       THEN [result |-> err, receivers |-> receivers,
             post_init_receivers |-> post_init_receivers,
             source_receivers |-> source_receivers]
       ELSE IF err # "ok"
       THEN [result |-> err, receivers |-> receivers,
             post_init_receivers |-> primed,
             source_receivers |-> source_receivers]
       ELSE [result |-> "ok",
             receivers |-> [receivers EXCEPT ![channel] =
                 Signal_connect(@,
                     proxy_lookup_key(proxy_receiver, sender, dispatch_uid),
                     proxy_receiver)],
             post_init_receivers |-> primed,
             source_receivers |-> connect_source_signals(channel, sender)]

\* what connect raises and the receiver lists it leaves
connect(channel, receiver, sender, fields, weak, dispatch_uid) ==
    LET err == connect_error(sender, fields, weak)
        resolved == resolve_fields(sender, fields)
        proxy_receiver == _make_proxy_receiver(channel, receiver, sender, resolved)
    IN IF err # "ok"
       THEN [result |-> err, receivers |-> receivers,
             post_init_receivers |-> post_init_receivers,
             source_receivers |-> source_receivers]
       ELSE [result |-> "ok",
             receivers |-> [receivers EXCEPT ![channel] =
                 Signal_connect(@,
                     proxy_lookup_key(proxy_receiver, sender, dispatch_uid),
                     proxy_receiver)],
             post_init_receivers |->
                 Signal_connect(post_init_receivers,
                     [uid |-> <<channel, receiver>>, sender |-> sender],
                     post_init_closure(channel, receiver, resolved)),
             source_receivers |-> connect_source_signals(channel, sender)]

Connect(channel, receiver, sender, fields, weak, dispatch_uid) ==
    LET out == connect(channel, receiver, sender, fields, weak, dispatch_uid)
    IN  /\ out.result = "ok" => nconnect + nops < MaxSteps
        /\ nconnect' = IF out.result = "ok" THEN nconnect + 1 ELSE nconnect
        /\ receivers' = out.receivers
        /\ post_init_receivers' = out.post_init_receivers
        /\ source_receivers' = out.source_receivers
        /\ calls' = <<>>
        /\ last' = [op |-> "connect", inst |-> None, result |-> out.result,
                    args |-> [channel |-> channel, receiver |-> receiver,
                              sender |-> sender, fields |-> fields, weak |-> weak,
                              dispatch_uid |-> dispatch_uid]]
        /\ UNCHANGED <<models_ready, classes, objs, hist, nops>>

\* apps.populate() ends: the registry is ready
Ready ==
    /\ ~models_ready
    /\ models_ready' = TRUE
    /\ calls' = <<>>
    /\ last' = [op |-> "ready", inst |-> None, result |-> "ok"]
    /\ UNCHANGED <<receivers, post_init_receivers, source_receivers, classes, objs,
                   hist, nconnect, nops>>

----------------------------------------------------------------------------
(* ChangedSignal.get_and_update_changed_fields                              *)

parse_datetime(value) == IF value = TextStamp THEN Stamp ELSE None

\* a to_python that returns the raw value
to_python_raw(field, value) == value

to_python(field, value) ==
    IF field.cls = "DateTimeField"
    THEN IF value = None THEN value
         ELSE IF type_of(value) = "datetime" THEN value
         ELSE parse_datetime(value)
    ELSE value

value_from_object(field, instance) == instance.attrs[field.name]

\* A snapshot entry: the value, and whether it is the very object the instance
\* holds (an object that can change in place) or a copy of its own.
deepcopy(value) == [val |-> value, alias |-> FALSE]
same_object(value) == [val |-> value, alias |-> type_of(value) = "list"]

stored_value(new_value) ==
    IF type_of(new_value) \in IMMUTABLE_TYPES_WHITELIST
    THEN same_object(new_value)
    ELSE deepcopy(new_value)

\* the loop of get_and_update_changed_fields ending at the first changed field
diff_fields_first_only(fields, n, instance, originals, changed_fields) ==
    LET loaded == SelectSeq(fields, LAMBDA f : f.attname \notin instance.deferred)
        differs(f) ==
            DictGet(originals, f.name, deepcopy(None)).val
                # to_python(f, value_from_object(f, instance))
        found == SelectSeq(loaded, differs)
    IN IF found = <<>>
       THEN [changed_fields |-> changed_fields, originals |-> originals]
       ELSE LET field == found[1]
                new_value == to_python(field, value_from_object(field, instance))
                old_value == DictGet(originals, field.name, deepcopy(None)).val
            IN [changed_fields |->
                    DictSet(changed_fields, field.name, <<old_value, new_value>>),
                originals |-> DictSet(originals, field.name, stored_value(new_value))]

\* the loop of get_and_update_changed_fields taking a field without an entry
\* in originals for changed, whatever its value
RECURSIVE diff_fields_absent_changed(_, _, _, _, _)
diff_fields_absent_changed(fields, n, instance, originals, changed_fields) ==
    IF n > Len(fields)
    THEN [changed_fields |-> changed_fields, originals |-> originals]
    ELSE LET field == fields[n]
         IN IF field.attname \in instance.deferred
            THEN diff_fields_absent_changed(fields, n + 1, instance, originals,
                                            changed_fields)
            ELSE LET new_value == to_python(field, value_from_object(field, instance))
                     old_value == DictGet(originals, field.name, deepcopy(None)).val
                 IN IF old_value # new_value \/ field.name \notin DOMAIN originals
                    THEN diff_fields_absent_changed(fields, n + 1, instance,
                             DictSet(originals, field.name, stored_value(new_value)),
                             DictSet(changed_fields, field.name, <<old_value, new_value>>))
                    ELSE diff_fields_absent_changed(fields, n + 1, instance, originals,
                                                    changed_fields)

\* the loop of get_and_update_changed_fields without its test of deferred_fields
RECURSIVE diff_fields_no_skip(_, _, _, _, _)
diff_fields_no_skip(fields, n, instance, originals, changed_fields) ==
    IF n > Len(fields)
    THEN [changed_fields |-> changed_fields, originals |-> originals]
    ELSE LET field == fields[n]
             new_value == to_python(field, value_from_object(field, instance))
             old_value == DictGet(originals, field.name, deepcopy(None)).val
         IN IF old_value # new_value
            THEN diff_fields_no_skip(fields, n + 1, instance,
                     DictSet(originals, field.name, stored_value(new_value)),
                     DictSet(changed_fields, field.name, <<old_value, new_value>>))
            ELSE diff_fields_no_skip(fields, n + 1, instance, originals, changed_fields)

\* the loop over the fields of get_and_update_changed_fields, from the n-th on
RECURSIVE diff_fields(_, _, _, _, _)
diff_fields(fields, n, instance, originals, changed_fields) ==
    IF n > Len(fields)
    THEN [changed_fields |-> changed_fields, originals |-> originals]
    ELSE LET field == fields[n]
         IN IF field.attname \in instance.deferred
            THEN diff_fields(fields, n + 1, instance, originals, changed_fields)
            ELSE LET new_value == to_python(field, value_from_object(field, instance))
                     old_value == DictGet(originals, field.name, deepcopy(None)).val
                 IN IF old_value # new_value
                    THEN diff_fields(fields, n + 1, instance,
                             DictSet(originals, field.name, stored_value(new_value)),
                             DictSet(changed_fields, field.name, <<old_value, new_value>>))
                    ELSE diff_fields(fields, n + 1, instance, originals, changed_fields)

\* get_and_update_changed_fields with one snapshot per signal, whatever the receiver
get_and_update_per_signal(signal, receiver, instance, fields) ==
    LET key == <<signal, "func">>
        originals == DictGet(instance.originals, key, EmptyDict)
        diff == diff_fields(fields, 1, instance, originals, EmptyDict)
    IN [changed_fields |-> diff.changed_fields,
        instance |-> [instance EXCEPT !.originals = DictSet(@, key, diff.originals)],
        raised |-> None]

\* get_and_update_changed_fields without the update of originals
get_changed_fields_only(signal, receiver, instance, fields) ==
    LET key == <<signal, receiver>>
        originals == DictGet(instance.originals, key, EmptyDict)
        diff == diff_fields(fields, 1, instance, originals, EmptyDict)
    IN [changed_fields |-> diff.changed_fields, instance |-> instance,
        raised |-> None]

\* the snapshot under the key is made when absent; an instance without
\* get_deferred_fields raises at line 140, before any field is read
get_and_update_changed_fields(signal, receiver, instance, fields) ==
    LET key == <<signal, receiver>>
        originals == DictGet(instance.originals, key, EmptyDict)
        diff == diff_fields(fields, 1, instance, originals, EmptyDict)
    IN IF ~has_get_deferred_fields(instance.cls)
       THEN [changed_fields |-> EmptyDict,
             instance |-> [instance EXCEPT !.originals = DictSet(@, key, originals)],
             raised |-> AttributeError(instance.cls, "get_deferred_fields")]
       ELSE [changed_fields |-> diff.changed_fields,
             instance |-> [instance EXCEPT
                              !.originals = DictSet(@, key, diff.originals)],
             raised |-> None]

----------------------------------------------------------------------------
(* The receivers: each returns the instance as it leaves it and the         *)
(* listener invocations it made.                                            *)

\* pr without its test of changed_fields
pr_unfiltered(proxy, sender, id, instance, kwargs) ==
    LET got == get_and_update_changed_fields(
                   proxy.signal, proxy._original_receiver, instance, proxy._fields)
    IN IF got.raised # None
       THEN [instance |-> got.instance, calls |-> <<>>, raised |-> got.raised,
             ran |-> {}]
       ELSE [instance |-> got.instance,
             calls |-> <<[receiver |-> proxy._original_receiver,
                          signal |-> proxy.signal, sender |-> sender, instance |-> id,
                          changed_fields |-> got.changed_fields, kwargs |-> kwargs]>>,
             raised |-> None,
             ran |-> {<<proxy.signal, proxy._original_receiver>>}]

\* the outcome of one receiver followed by the outcome of those after it
chain(one, rest) ==
    [instance |-> rest.instance, calls |-> one.calls \o rest.calls,
     raised |-> rest.raised, ran |-> one.ran \cup rest.ran]

\* receiver(instance=instance, changed_fields=changed_fields, *args, **kwargs):
\* the call, then what the receiver's body did, raised and reached
invoked(proxy, sender, id, kwargs, changed_fields, body) ==
    [instance |-> body.instance,
     calls |-> <<[receiver |-> proxy._original_receiver, signal |-> proxy.signal,
                  sender |-> sender, instance |-> id,
                  changed_fields |-> changed_fields, kwargs |-> kwargs]>>
               \o body.calls,
     raised |-> body.raised,
     ran |-> {<<proxy.signal, proxy._original_receiver>>} \cup body.ran]

RECURSIVE source_send(_, _, _, _, _, _)
RECURSIVE source_send_after(_, _, _, _, _, _)

\* the body of a receiver: what it does to the instance, the calls made under
\* it, the exception it raises (None when it returns) and the (channel,
\* listener) pairs whose diff ran under it
receiver_body(receiver, signal, sender, id, instance) ==
    IF receiver \in Raising
    THEN [instance |-> instance, calls |-> <<>>, raised |-> Called, ran |-> {}]
    ELSE IF receiver \in Resending
    THEN source_send(live_receivers(source_receivers[source_signal(signal)], sender),
                     1, sender, id, instance,
                     IF signal = "post_save_changed"
                     THEN [created |-> "False", raw |-> "False", using |-> "default"]
                     ELSE [raw |-> "False", using |-> "default"])
    ELSE [instance |-> instance, calls |-> <<>>, raised |-> None, ran |-> {}]

\* a proxy receiver that wraps the receiver's call in try/except and goes on
pr_swallowing(proxy, sender, id, instance, kwargs) ==
    LET got == get_and_update_changed_fields(
                   proxy.signal, proxy._original_receiver, instance, proxy._fields)
    IN IF got.raised # None
       THEN [instance |-> got.instance, calls |-> <<>>, raised |-> got.raised,
             ran |-> {}]
       ELSE IF DOMAIN got.changed_fields # {}
       THEN [invoked(proxy, sender, id, kwargs, got.changed_fields,
                     receiver_body(proxy._original_receiver, proxy.signal, sender,
                                   id, got.instance))
             EXCEPT !.raised = None]
       ELSE [instance |-> got.instance, calls |-> <<>>, raised |-> None,
             ran |-> {<<proxy.signal, proxy._original_receiver>>}]

\* the proxy receiver pr of _make_proxy_receiver: the diff and the receiver
\* are called outside any try, so what they raise leaves pr
pr(proxy, sender, id, instance, kwargs) ==
    LET got == get_and_update_changed_fields(
                   proxy.signal, proxy._original_receiver, instance, proxy._fields)
    IN IF got.raised # None
       THEN [instance |-> got.instance, calls |-> <<>>, raised |-> got.raised,
             ran |-> {}]
       ELSE IF DOMAIN got.changed_fields # {}
       THEN invoked(proxy, sender, id, kwargs, got.changed_fields,
                    receiver_body(proxy._original_receiver, proxy.signal, sender,
                                  id, got.instance))
       ELSE [instance |-> got.instance, calls |-> <<>>, raised |-> None,
             ran |-> {<<proxy.signal, proxy._original_receiver>>}]

\* a primer that passes a non-empty diff to the receiver, as pr does
post_init_closure_notifying(closure, instance) ==
    LET got == get_and_update_changed_fields(
                   closure.signal, closure.receiver, instance, closure.fields)
    IN [instance |-> got.instance,
        calls |-> IF DOMAIN got.changed_fields # {}
                  THEN <<[receiver |-> closure.receiver, signal |-> closure.signal,
                          sender |-> instance.cls, instance |-> "obj",
                          changed_fields |-> got.changed_fields, kwargs |-> EmptyDict]>>
                  ELSE <<>>,
        raised |-> got.raised]

\* the primer post_init_closure of connect
run_post_init_closure(closure, instance) ==
    LET got == get_and_update_changed_fields(
                   closure.signal, closure.receiver, instance, closure.fields)
    IN [instance |-> got.instance, calls |-> <<>>, raised |-> got.raised]

----------------------------------------------------------------------------
(* fieldsignals/__init__.py: the older channel post_fields_changed and the  *)
(* two receivers the package connects to post_init and post_save when it is *)
(* imported.                                                                *)

\* the fields argument of the older connect: None, or a list whose items are
\* Field objects or str names (a single item stands for a list of one)
LegacyNone == [given |-> FALSE, kind |-> "Field", items |-> <<>>]
LegacyFieldObjects(fs) == [given |-> TRUE, kind |-> "Field", items |-> fs]
LegacyNames(ns) == [given |-> TRUE, kind |-> "str", items |-> ns]

\* the key of the older channel's snapshot in instance._fieldsignals_originals:
\* the signal object itself
LegacyKey == <<"post_fields_changed">>

\* the receivers connected at import, for every sender
post_model_init_entry ==
    [key |-> [uid |-> <<"post_model_init">>, sender |-> None],
     r |-> [name |-> "post_model_init"]]

on_model_post_save_entry ==
    [key |-> [uid |-> "on_model_post_save", sender |-> None],
     r |-> "on_model_post_save"]

\* what ChangedFieldsSignal.connect raises, for senders that are no
\* django Model and no django Field (the fakes, None, or an instance of a fake)
ChangedFieldsSignal_connect_error(sender, fields) ==
    IF fields.items = <<>> /\ sender = None
    THEN "ValueError: Either sender or fields (or both) must be supplied"
    ELSE IF fields.given /\ fields.items = <<>>
    THEN "ValueError: fields must be non-empty"
    ELSE IF sender = None
    THEN AttributeError(IF fields.kind = "str" THEN "str" ELSE fields.items[1].cls,
                        "model")
    ELSE IF sender \notin Senders
    THEN "TypeError: issubclass() arg 1 must be a class"
    ELSE IF "post_fields_changed" \in DOMAIN classes[sender]._fieldsignals_fields
    THEN "ValueError: This signal has already been registered for this model, and can't be registered twice."
    ELSE "ok"

\* ChangedFieldsSignal.connect: the fields are filed on the class and the
\* receiver on the channel
ChangedFieldsSignal_connect(receiver, sender, fields, weak, dispatch_uid) ==
    LET err == ChangedFieldsSignal_connect_error(sender, fields)
    IN IF err # "ok"
       THEN [result |-> err, classes |-> classes, receivers |-> receivers]
       ELSE [result |-> "ok",
             classes |-> [classes EXCEPT ![sender]._fieldsignals_fields =
                             DictSet(@, "post_fields_changed", fields)],
             receivers |-> [receivers EXCEPT !["post_fields_changed"] =
                 Signal_connect(@,
                     IF dispatch_uid = None
                     THEN [receiver |-> receiver, sender |-> sender]
                     ELSE [uid |-> dispatch_uid, sender |-> sender],
                     receiver)]]

\* the loop of update_watched_fields: the raw value of each watched field,
\* the object itself, is filed under the field's name; the value is read
\* before the name, so a str item fails on value_from_object
RECURSIVE watch_fields(_, _, _, _)
watch_fields(watched, n, instance, originals) ==
    IF n > Len(watched.items)
    THEN [instance |-> [instance EXCEPT !.originals = DictSet(@, LegacyKey, originals)],
          raised |-> None]
    ELSE IF watched.kind = "str"
    THEN [instance |-> [instance EXCEPT !.originals = DictSet(@, LegacyKey, originals)],
          raised |-> AttributeError("str", "value_from_object")]
    ELSE IF watched.items[n].name \notin DOMAIN instance.attrs
    THEN [instance |-> [instance EXCEPT !.originals = DictSet(@, LegacyKey, originals)],
          raised |-> AttributeError(instance.cls, watched.items[n].name)]
    ELSE watch_fields(watched, n + 1, instance,
             DictSet(originals, watched.items[n].name,
                     same_object(value_from_object(watched.items[n], instance))))

update_watched_fields(sender, instance) ==
    LET watched_fields == DictGet(classes[sender]._fieldsignals_fields,
                                  "post_fields_changed", LegacyNone)
    IN IF watched_fields.items = <<>>
       THEN [instance |-> instance, raised |-> None]
       ELSE watch_fields(watched_fields, 1, instance, EmptyDict)

\* post_model_init, the receiver of post_init for every sender
post_model_init(sender, instance) ==
    LET out == IF "post_fields_changed" \in DOMAIN classes[sender]._fieldsignals_fields
               THEN update_watched_fields(sender, instance)
               ELSE [instance |-> instance, raised |-> None]
    IN [instance |-> out.instance, calls |-> <<>>, raised |-> out.raised]

\* get_changed_fields: the snapshot is keyed by field names, and the loop
\* asks each key for value_from_object
get_changed_fields(sender, instance) ==
    IF DOMAIN DictGet(instance.originals, LegacyKey, EmptyDict) # {}
    THEN AttributeError("str", "value_from_object")
    ELSE None

\* on_model_post_save, the receiver of post_save for every sender: with no
\* changed fields it sends nothing
on_model_post_save(sender, instance) ==
    [instance |-> instance, calls |-> <<>>,
     raised |-> get_changed_fields(sender, instance), ran |-> {}]

\* post_fields_changed.connect(receiver, sender=..., fields=...)
PostFieldsChangedConnect(receiver, sender, fields, weak, dispatch_uid) ==
    LET out == ChangedFieldsSignal_connect(receiver, sender, fields, weak, dispatch_uid)
    IN  /\ out.result = "ok" => nconnect + nops < MaxSteps
        /\ nconnect' = IF out.result = "ok" THEN nconnect + 1 ELSE nconnect
        /\ classes' = out.classes
        /\ receivers' = out.receivers
        /\ calls' = <<>>
        /\ last' = [op |-> "post_fields_changed.connect", inst |-> None,
                    result |-> out.result,
                    args |-> [receiver |-> receiver, sender |-> sender,
                              fields |-> fields, weak |-> weak,
                              dispatch_uid |-> dispatch_uid]]
        /\ UNCHANGED <<models_ready, post_init_receivers, source_receivers, objs,
                       hist, nops>>

----------------------------------------------------------------------------
\* ChangedSignal.send (Signal.send, not send_robust): the channel's proxies for
\* this sender, in order; the first exception ends the loop and leaves send
RECURSIVE send(_, _, _, _, _, _)
RECURSIVE send_after(_, _, _, _, _, _)
send(rs, n, sender, id, instance, kwargs) ==
    IF n > Len(rs)
    THEN [instance |-> instance, calls |-> <<>>, raised |-> None, ran |-> {}]
    ELSE send_after(pr(rs[n].r, sender, id, instance, kwargs),
                    rs, n, sender, id, kwargs)

\* the rest of the loop of send after receiver n: none when it raised
send_after(one, rs, n, sender, id, kwargs) ==
    IF one.raised # None THEN one
    ELSE chain(one, send(rs, n + 1, sender, id, one.instance, kwargs))

\* a source handler that passes on every keyword of the event
on_model_save_all_kwargs(channel, sender, id, instance, kwargs) ==
    send(live_receivers(receivers[channel], sender), 1, sender, id, instance, kwargs)

\* _on_model_pre_save / _on_model_post_save
on_model_save(channel, sender, id, instance, kwargs) ==
    send(live_receivers(receivers[channel], sender), 1, sender, id, instance,
         IF channel = "post_save_changed"
         THEN [created |-> DictGet(kwargs, "created", None),
               using |-> DictGet(kwargs, "using", None)]
         ELSE EmptyDict)

\* pre_save.send / post_save.send: the source handlers for this sender, in
\* order; the first exception ends the loop and leaves the send
source_send(rs, n, sender, id, instance, kwargs) ==
    IF n > Len(rs)
    THEN [instance |-> instance, calls |-> <<>>, raised |-> None, ran |-> {}]
    ELSE source_send_after(
             IF rs[n].r = on_model_post_save_entry.r
             THEN on_model_post_save(sender, instance)
             ELSE on_model_save(rs[n].r, sender, id, instance, kwargs),
             rs, n, sender, id, kwargs)

\* the rest of the loop of the source signal's send after handler n
source_send_after(one, rs, n, sender, id, kwargs) ==
    IF one.raised # None THEN one
    ELSE chain(one, source_send(rs, n + 1, sender, id, one.instance, kwargs))

\* post_init.send: the primers for this sender, in order; the first
\* exception ends the loop and leaves the send
RECURSIVE post_init_send(_, _, _)
RECURSIVE post_init_send_after(_, _, _)
post_init_send(rs, n, instance) ==
    IF n > Len(rs) THEN [instance |-> instance, calls |-> <<>>, raised |-> None]
    ELSE post_init_send_after(
             IF rs[n].r = post_model_init_entry.r
             THEN post_model_init(instance.cls, instance)
             ELSE run_post_init_closure(rs[n].r, instance),
             rs, n)

\* the rest of the loop of post_init.send after receiver n
post_init_send_after(one, rs, n) ==
    IF one.raised # None THEN one
    ELSE LET rest == post_init_send(rs, n + 1, one.instance)
         IN [instance |-> rest.instance, calls |-> one.calls \o rest.calls,
             raised |-> rest.raised]

----------------------------------------------------------------------------
(* The instances and what the host framework and its callers do to them     *)

Unborn ==
    [cls |-> None, initialized |-> FALSE, attrs |-> EmptyDict, deferred |-> {},
     originals |-> EmptyDict]

NoHistory ==
    [attrs |-> EmptyDict, deferred |-> {}, nconnect |-> 0, touched |-> {},
     diffed |-> {}]

FieldNames(sender) == DOMAIN class_defaults(sender)

\* the snapshots of an instance after attribute `name` changed: in place
\* (the entries that are that object change with it) or by rebinding
\* (they keep the old object, which nothing else can reach)
originals_after(originals, name, value, in_place) ==
    [key \in DOMAIN originals |->
        [f \in DOMAIN originals[key] |->
            IF f = name /\ originals[key][f].alias
            THEN IF in_place THEN [val |-> value, alias |-> TRUE]
                 ELSE [originals[key][f] EXCEPT !.alias = FALSE]
            ELSE originals[key][f]]]

touch(h, instance, name) ==
    IF instance.initialized THEN [h EXCEPT !.touched = @ \cup {name}] ELSE h

\* obj = Model(), before post_init is sent: the instance reads the class
\* attributes as they are by now
Construct(id, sender, deferred) ==
    /\ models_ready
    /\ objs[id].cls = None
    /\ objs' = [objs EXCEPT ![id] =
           [Unborn EXCEPT !.cls = sender, !.attrs = classes[sender].attrs,
                          !.deferred = deferred]]
    /\ calls' = <<>>
    /\ last' = [op |-> "construct", inst |-> id, result |-> "ok"]
    /\ UNCHANGED <<models_ready, receivers, post_init_receivers, source_receivers,
                   classes, hist, nconnect, nops>>

\* obj.name = value
SetAttr(id, name, value) ==
    /\ objs[id].cls # None
    /\ nconnect + nops < MaxSteps
    /\ name \in FieldNames(objs[id].cls)
    /\ value \in AssignableValues(name)
    /\ objs' = [objs EXCEPT ![id].attrs[name] = value,
                            ![id].originals = originals_after(@, name, value, FALSE)]
    /\ hist' = [hist EXCEPT ![id] = touch(@, objs[id], name)]
    /\ nops' = nops + 1
    /\ calls' = <<>>
    /\ last' = [op |-> "setattr", inst |-> id, result |-> "ok"]
    /\ UNCHANGED <<models_ready, receivers, post_init_receivers, source_receivers,
                   classes, nconnect>>

list_changed(value) == IF value = "[]" THEN "[1]" ELSE "[]"

\* obj.name.append(1) or obj.name.pop(): the list object changes in place,
\* for the class and every instance of it when it is the class's own list
MutateInPlace(id, name) ==
    /\ objs[id].cls # None
    /\ nconnect + nops < MaxSteps
    /\ name \in FieldNames(objs[id].cls)
    /\ type_of(objs[id].attrs[name]) = "list"
    /\ LET cls == objs[id].cls
           value == list_changed(objs[id].attrs[name])
           holders == IF name \in ClassHeld(cls)
                      THEN {i \in Instances : objs[i].cls = cls}
                      ELSE {id}
       IN /\ objs' = [i \in Instances |->
                        IF i \in holders
                        THEN [objs[i] EXCEPT
                                 !.attrs[name] = value,
                                 !.originals = originals_after(@, name, value, TRUE)]
                        ELSE objs[i]]
          /\ hist' = [i \in Instances |->
                        IF i \in holders THEN touch(hist[i], objs[i], name)
                        ELSE hist[i]]
          /\ classes' = IF name \in ClassHeld(cls)
                        THEN [classes EXCEPT ![cls].attrs[name] = value]
                        ELSE classes
    /\ nops' = nops + 1
    /\ calls' = <<>>
    /\ last' = [op |-> "mutate", inst |-> id, result |-> "ok"]
    /\ UNCHANGED <<models_ready, receivers, post_init_receivers, source_receivers,
                   nconnect>>

\* a deferred field is loaded: the instance no longer reports it as deferred
LoadDeferred(id, name) ==
    /\ nconnect + nops < MaxSteps
    /\ name \in objs[id].deferred
    /\ objs' = [objs EXCEPT ![id].deferred = @ \ {name}]
    /\ hist' = [hist EXCEPT ![id] = touch(@, objs[id], name)]
    /\ nops' = nops + 1
    /\ calls' = <<>>
    /\ last' = [op |-> "load", inst |-> id, result |-> "ok"]
    /\ UNCHANGED <<models_ready, receivers, post_init_receivers, source_receivers,
                   classes, nconnect>>

\* post_init.send(sender=type(obj), instance=obj), once per instance; an
\* exception that leaves the send is the outcome of the step
PostInit(id) ==
    /\ objs[id].cls # None
    /\ ~objs[id].initialized
    /\ LET out == post_init_send(
                      live_receivers(post_init_receivers, objs[id].cls), 1, objs[id])
       IN /\ objs' = [objs EXCEPT ![id] = [out.instance EXCEPT !.initialized = TRUE]]
          /\ calls' = out.calls
          /\ last' = [op |-> "post_init", inst |-> id,
                      result |-> IF out.raised = None THEN "ok" ELSE out.raised]
    /\ hist' = [hist EXCEPT ![id] =
           [attrs |-> objs[id].attrs, deferred |-> objs[id].deferred,
            nconnect |-> nconnect, touched |-> {}, diffed |-> {}]]
    /\ UNCHANGED <<models_ready, receivers, post_init_receivers, source_receivers,
                   classes, nconnect, nops>>

\* a source signal whose diffs keep their snapshots in one table per record
\* type instead of on the instance: the event leaves every constructed
\* instance of the type with the snapshots of the one it was sent for
Save_process_wide(source, id, kwargs) ==
    /\ objs[id].initialized
    /\ nconnect + nops < MaxSteps
    /\ LET sender == objs[id].cls
           out == source_send(live_receivers(source_receivers[source], sender), 1,
                              sender, id, objs[id], kwargs)
       IN /\ objs' = [i \in Instances |->
                        IF i = id THEN out.instance
                        ELSE IF objs[i].cls = sender
                        THEN [objs[i] EXCEPT !.originals = out.instance.originals]
                        ELSE objs[i]]
          /\ calls' = out.calls
          /\ hist' = [hist EXCEPT ![id].diffed = @ \cup out.ran]
          /\ last' = [op |-> source, inst |-> id,
                      result |-> IF out.raised = None THEN "ok" ELSE out.raised]
    /\ nops' = nops + 1
    /\ UNCHANGED <<models_ready, receivers, post_init_receivers, source_receivers,
                   classes, nconnect>>

\* a source signal sent for the instance: an exception that leaves the send
\* is the outcome of the step, and the snapshots written before it stay
Save(source, id, kwargs) ==
    /\ objs[id].initialized
    /\ nconnect + nops < MaxSteps
    /\ LET sender == objs[id].cls
           out == source_send(live_receivers(source_receivers[source], sender), 1,
                              sender, id, objs[id], kwargs)
       IN /\ objs' = [objs EXCEPT ![id] = out.instance]
          /\ calls' = out.calls
          /\ hist' = [hist EXCEPT ![id].diffed = @ \cup out.ran]
          /\ last' = [op |-> source, inst |-> id,
                      result |-> IF out.raised = None THEN "ok" ELSE out.raised]
    /\ nops' = nops + 1
    /\ UNCHANGED <<models_ready, receivers, post_init_receivers, source_receivers,
                   classes, nconnect>>

\* pre_save.send(sender=type(obj), instance=obj)
PreSave(id) == Save("pre_save", id, [raw |-> "False", using |-> "default"])

\* post_save.send(sender=type(obj), instance=obj, created=..., using=...)
PostSave(id, created) ==
    Save("post_save", id, [created |-> created, raw |-> "False", using |-> "default"])

\* obj.save(): the framework sends pre_save, writes the row, sends post_save;
\* an exception out of pre_save ends the save before post_save is sent
ModelSave(id, created) ==
    /\ objs[id].initialized
    /\ nconnect + nops < MaxSteps
    /\ LET sender == objs[id].cls
           before == source_send(live_receivers(source_receivers["pre_save"], sender),
                                 1, sender, id, objs[id],
                                 [raw |-> "False", using |-> "default"])
           after == IF before.raised # None
                    THEN [instance |-> before.instance, calls |-> <<>>,
                          raised |-> before.raised, ran |-> {}]
                    ELSE source_send(
                             live_receivers(source_receivers["post_save"], sender),
                             1, sender, id, before.instance,
                             [created |-> created, raw |-> "False",
                              using |-> "default"])
       IN /\ objs' = [objs EXCEPT ![id] = after.instance]
          /\ calls' = before.calls \o after.calls
          /\ hist' = [hist EXCEPT ![id].diffed = @ \cup before.ran \cup after.ran]
          /\ last' = [op |-> "save", inst |-> id,
                      result |-> IF after.raised = None THEN "ok" ELSE after.raised]
    /\ nops' = nops + 1
    /\ UNCHANGED <<models_ready, receivers, post_init_receivers, source_receivers,
                   classes, nconnect>>

----------------------------------------------------------------------------
(* The state once fieldsignals.signals is imported: importing the package   *)
(* has connected post_model_init to post_init and on_model_post_save to     *)
(* post_save; nothing is registered on a channel and no instance exists.    *)

Init ==
    /\ models_ready = FALSE
    /\ receivers = [c \in Channels \cup {"post_fields_changed"} |-> <<>>]
    /\ post_init_receivers = <<post_model_init_entry>>
    /\ source_receivers = [s \in {"pre_save", "post_save"} |->
                              IF s = "post_save" THEN <<on_model_post_save_entry>>
                              ELSE <<>>]
    /\ classes = [s \in Senders |-> [attrs |-> class_defaults(s),
                                     _fieldsignals_fields |-> EmptyDict]]
    /\ objs = [id \in Instances |-> Unborn]
    /\ hist = [id \in Instances |-> NoHistory]
    /\ calls = <<>>
    /\ last = [op |-> "none", inst |-> None, result |-> "ok"]
    /\ nconnect = 0
    /\ nops = 0

AllNames == {"a_key", "another", "a_datetime", "f"}

NextOf(connects, instances, senders) ==
    \/ Ready
    \/ \E a \in connects : Connect(a.channel, a.receiver, a.sender, a.fields, a.weak, a.dispatch_uid)
    \/ \E id \in instances, s \in senders :
          \E d \in SUBSET DeferrableFields(s) : Construct(id, s, d)
    \/ \E id \in instances, name \in AllNames :
          \E v \in AssignableValues(name) : SetAttr(id, name, v)
    \/ \E id \in instances, name \in AllNames : MutateInPlace(id, name)
    \/ \E id \in instances, name \in AllNames : LoadDeferred(id, name)
    \/ \E id \in instances : PostInit(id)
    \/ \E id \in instances : PreSave(id)
    \/ \E id \in instances, created \in {"True", "False"} : PostSave(id, created)

\* one instance, and one listener registered for its type, once or twice
CoreConnects ==
    ConnectArgs(Channels, {"func"}, {"FakeModel"}, {NoFields, Names({"a_key"})},
                {FALSE}, {None})

Next == NextOf(CoreConnects, {"obj"}, {"FakeModel"})

Spec == Init /\ [][Next]_vars

\* connect called with every kind of argument, on one channel
AnyConnects ==
    ConnectArgs({"post_save_changed"}, {"func"}, {"FakeModel"},
                {NoFields, Names({}), Names({"a_key"}), Names({"m2m"}),
                 Names({"a_key", "m2m"}), Names({"nope"}), Names({"a_key", "nope"})},
                {FALSE}, {None})
    \cup ConnectArgs({"post_save_changed"}, {"func"}, {"FakeModelWithOneToOne"},
                     {NoFields, Names({"o2o", "f"})}, {FALSE}, {None})
    \cup ConnectArgs({"post_save_changed"}, {"func"}, {"an instance"},
                     {NoFields, Names({"nope"})}, BOOLEAN, {None})
    \cup ConnectArgs({"post_save_changed"}, {"func"}, {"FakeModel"},
                     {NoFields, Names({"m2m"})}, {TRUE}, {None})

NextConnect ==
    \/ Ready
    \/ \E a \in AnyConnects : Connect(a.channel, a.receiver, a.sender, a.fields, a.weak, a.dispatch_uid)
    \/ Construct("obj", "FakeModel", {})
    \/ \E v \in AssignableValues("a_key") : SetAttr("obj", "a_key", v)
    \/ PostInit("obj")
    \/ \E created \in {"True", "False"} : PostSave("obj", created)

SpecConnect == Init /\ [][NextConnect]_vars

\* a listener connected with no field list, for a type with a many-to-many
\* field and for one with a reverse relation
TypeConnects ==
    ConnectArgs({"pre_save_changed"}, {"func"}, Senders, {NoFields}, {FALSE}, {None})

NextTypes ==
    \/ Ready
    \/ \E a \in TypeConnects : Connect(a.channel, a.receiver, a.sender, a.fields, a.weak, a.dispatch_uid)
    \/ Construct("obj", "FakeModel", {})
    \/ \E name \in {"a_key", "another", "a_datetime"} :
          \E v \in AssignableValues(name) : SetAttr("obj", name, v)
    \/ MutateInPlace("obj", "m2m")
    \/ PostInit("obj")
    \/ PreSave("obj")

SpecTypes == Init /\ [][NextTypes]_vars

\* two listeners, on either channel, whose tracked fields overlap on a_key,
\* each connected without a dispatch_uid or, on the after-persist channel,
\* both under the same one
PairConnects ==
    ConnectArgs(Channels, {"func"}, {"FakeModel"}, {Names({"a_key"})}, {FALSE},
                {None})
    \cup ConnectArgs(Channels, {"func2"}, {"FakeModel"}, {NoFields}, {FALSE},
                     {None})
    \cup ConnectArgs({"post_save_changed"}, {"func"}, {"FakeModel"},
                     {Names({"a_key"})}, {FALSE}, {"x"})
    \cup ConnectArgs({"post_save_changed"}, {"func2"}, {"FakeModel"}, {NoFields},
                     {FALSE}, {"x"})

NextPairs ==
    \/ Ready
    \/ \E a \in PairConnects : Connect(a.channel, a.receiver, a.sender, a.fields, a.weak, a.dispatch_uid)
    \/ Construct("obj", "FakeModel", {})
    \/ \E v \in AssignableValues("a_key") : SetAttr("obj", "a_key", v)
    \/ PostInit("obj")
    \/ PreSave("obj")
    \/ PostSave("obj", "False")
    \/ ModelSave("obj", "False")

SpecPairs == Init /\ [][NextPairs]_vars

\* a listener that sends post_save again from its body (the row exists by
\* then: created=False), connected once or twice
ResendConnects ==
    ConnectArgs({"post_save_changed"}, {"resaver"}, {"FakeModel"},
                {NoFields, Names({"a_key"})}, {FALSE}, {None})

NextResend ==
    \/ Ready
    \/ \E a \in ResendConnects :
          Connect(a.channel, a.receiver, a.sender, a.fields, a.weak, a.dispatch_uid)
    \/ Construct("obj", "FakeModel", {})
    \/ \E name \in {"a_key", "another"} :
          \E v \in AssignableValues(name) : SetAttr("obj", name, v)
    \/ PostInit("obj")
    \/ PostSave("obj", "True")

SpecResend == Init /\ [][NextResend]_vars

\* a listener that raises and one that returns, on either channel, in either
\* order
RaiseConnects ==
    ConnectArgs(Channels, {"raising_func", "func"}, {"FakeModel"}, {NoFields}, {FALSE}, {None})

NextRaise ==
    \/ Ready
    \/ \E a \in RaiseConnects :
          Connect(a.channel, a.receiver, a.sender, a.fields, a.weak, a.dispatch_uid)
    \/ Construct("obj", "FakeModel", {})
    \/ \E v \in AssignableValues("a_key") : SetAttr("obj", "a_key", v)
    \/ PostInit("obj")
    \/ PreSave("obj")
    \/ PostSave("obj", "False")
    \/ ModelSave("obj", "False")

SpecRaise == Init /\ [][NextRaise]_vars

\* two instances of one record type; a listener on either channel for their
\* type and a listener for another type
TwoConnects ==
    ConnectArgs(Channels, {"func"}, {"FakeModel"}, {NoFields}, {FALSE}, {None})
    \cup ConnectArgs({"pre_save_changed"}, {"func2"}, {"FakeModelWithOneToOne"},
                     {NoFields}, {FALSE}, {None})

NextTwo ==
    \/ Ready
    \/ \E a \in TwoConnects :
          Connect(a.channel, a.receiver, a.sender, a.fields, a.weak, a.dispatch_uid)
    \/ \E id \in Instances :
          \/ Construct(id, "FakeModel", {})
          \/ \E v \in AssignableValues("a_key") : SetAttr(id, "a_key", v)
          \/ PostInit(id)
          \/ PreSave(id)
          \/ PostSave(id, "False")
          \/ ModelSave(id, "False")

SpecTwo == Init /\ [][NextTwo]_vars

\* both channels' generations side by side: a listener on the after-persist
\* channel for either record type, the older channel connected in each of its
\* forms, two instances of either type and the list their class holds
WholeConnects ==
    ConnectArgs({"post_save_changed"}, {"func"}, Senders, {NoFields}, {FALSE}, {None})

LegacyConnects ==
    [receiver : {"func2"}, sender : {"FakeModel"},
     fields : {LegacyNone, LegacyNames(<<"a_key">>),
               LegacyFieldObjects(<<Field("a_key", FALSE)>>),
               LegacyFieldObjects(<<Field("m2m", TRUE)>>)},
     weak : {TRUE}, dispatch_uid : {None}]
    \cup [receiver : {"func2"}, sender : {None, "an instance"},
          fields : {LegacyNone, LegacyNames(<<>>), LegacyNames(<<"a_key">>)},
          weak : {TRUE}, dispatch_uid : {None}]

NextWhole ==
    \/ Ready
    \/ \E a \in WholeConnects :
          Connect(a.channel, a.receiver, a.sender, a.fields, a.weak, a.dispatch_uid)
    \/ \E a \in LegacyConnects :
          PostFieldsChangedConnect(a.receiver, a.sender, a.fields, a.weak,
                                   a.dispatch_uid)
    \/ \E s \in Senders : Construct("obj", s, {})
    \/ Construct("obj2", "FakeModel", {})
    \/ \E v \in AssignableValues("a_key") : SetAttr("obj", "a_key", v)
    \/ MutateInPlace("obj2", "m2m")
    \/ PostInit("obj")
    \/ PostSave("obj", "False")

SpecWhole == Init /\ [][NextWhole]_vars

----------------------------------------------------------------------------
(* Vocabulary of the properties                                             *)

ChannelOf(source) ==
    IF source = "pre_save" THEN "pre_save_changed" ELSE "post_save_changed"

\* this step is a before-persist or after-persist event on instance id
SaveStep(id) ==
    /\ nops' = nops + 1
    /\ last'.op \in {"pre_save", "post_save"}
    /\ last'.inst = id

\* the registrations of listener l on channel ch for a record type
Registrations(ch, l, sender) ==
    {n \in 1..Len(receivers[ch]) :
        /\ receivers[ch][n].key.sender = sender
        /\ receivers[ch][n].r._original_receiver = l}

TrackedBy(ch, n) ==
    {receivers[ch][n].r._fields[k].name : k \in 1..Len(receivers[ch][n].r._fields)}

Tracked(ch, l, sender) ==
    UNION {TrackedBy(ch, n) : n \in Registrations(ch, l, sender)}

\* the value a raw field value stands for
normalized(name, value) ==
    IF name = "a_datetime" /\ value = TextStamp THEN Stamp ELSE value

\* what the snapshot of (channel, listener) holds for a field, absent read as None
SnapshotValue(instance, key, name) ==
    IF key \in DOMAIN instance.originals /\ name \in DOMAIN instance.originals[key]
    THEN instance.originals[key][name].val
    ELSE None

CallsTo(cs, l) == {n \in 1..Len(cs) : cs[n].receiver = l}

\* listener l's registrations on ch were all made before instance id was initialized
RegisteredBeforeInit(ch, l, id) ==
    /\ objs[id].initialized
    /\ Registrations(ch, l, objs[id].cls) # {}
    /\ \A n \in Registrations(ch, l, objs[id].cls) :
          receivers[ch][n].r.id <= hist[id].nconnect

----------------------------------------------------------------------------
(* C1: on a before-persist or after-persist event the calls go to the       *)
(* event's channel and instance only, and a listener is invoked if and only *)
(* if it is registered on that channel for the instance's type and one of   *)
(* its tracked, non-deferred fields has a normalized value different from   *)
(* the value in its snapshot (absent read as None).                         *)
C1_Filtering ==
    [][\A id \in Instances : SaveStep(id) =>
        LET ch == ChannelOf(last'.op)
            inst == objs[id]
        IN /\ \A n \in 1..Len(calls') :
                 calls'[n].signal = ch /\ calls'[n].instance = id
           /\ \A l \in Listeners :
                 LET differs ==
                        \E f \in Tracked(ch, l, inst.cls) :
                            /\ f \notin inst.deferred
                            /\ normalized(f, inst.attrs[f]) #
                                   SnapshotValue(inst, <<ch, l>>, f)
                 IN (CallsTo(calls', l) # {}) <=> differs]_vars

\* an untracked field was changed after initialization, the event fired and
\* the listener, which tracks a_key only, was not called
C1_Witness ==
    /\ last.op = "post_save"
    /\ calls = <<>>
    /\ RegisteredBeforeInit("post_save_changed", "func", "obj")
    /\ Tracked("post_save_changed", "func", "FakeModel") = {"a_key"}
    /\ "a_datetime" \in hist["obj"].touched
    /\ objs["obj"].attrs["a_datetime"] = Stamp
    /\ hist["obj"].attrs["a_datetime"] = None

----------------------------------------------------------------------------
\* C2, for listener l: at the first event on its channel after the instance
\* (none of whose fields was deferred) was initialized, each call carries
\* exactly the tracked fields whose value differs from the value at
\* initialization, each with the pair (value at initialization, current
\* value), and there is one call when there is such a field and none otherwise.
ExactChanges(id, l) ==
    LET ch == ChannelOf(last'.op)
        inst == objs[id]
        changed == {f \in Tracked(ch, l, inst.cls) :
                       normalized(f, inst.attrs[f]) # normalized(f, hist[id].attrs[f])}
        expected == [f \in changed |->
                       <<normalized(f, hist[id].attrs[f]), normalized(f, inst.attrs[f])>>]
    IN /\ \A n \in CallsTo(calls', l) : calls'[n].changed_fields = expected
       /\ Cardinality(CallsTo(calls', l)) = IF changed = {} THEN 0 ELSE 1

FirstEventSinceInit(id, l) ==
    /\ SaveStep(id)
    /\ RegisteredBeforeInit(ChannelOf(last'.op), l, id)
    /\ hist[id].deferred = {}
    /\ <<ChannelOf(last'.op), l>> \notin hist[id].diffed

(* C2: when an instance is initialized, then fields are assigned, then a    *)
(* channel event fires, the changed_fields passed to a listener holds       *)
(* exactly the listener's tracked fields whose value differs from the value *)
(* at initialization, each with (value at initialization, current value).   *)
C2_ExactChanges ==
    [][\A id \in Instances, l \in Listeners :
          FirstEventSinceInit(id, l) => ExactChanges(id, l)]_vars

\* the same, for the listeners registered once on the channel
C2_RegisteredOnce ==
    [][\A id \in Instances, l \in Listeners :
          (/\ FirstEventSinceInit(id, l)
           /\ Cardinality(Registrations(ChannelOf(last'.op), l, objs[id].cls)) = 1)
          => ExactChanges(id, l)]_vars

----------------------------------------------------------------------------
NotInvokedUntouched(id, l) ==
    (/\ SaveStep(id)
     /\ hist[id].touched = {}
     /\ RegisteredBeforeInit(ChannelOf(last'.op), l, id))
    => CallsTo(calls', l) = {}

(* C3: for every registration and every instance initialized after it, a    *)
(* before-persist or after-persist event fired with no field assigned since *)
(* the initialization never invokes the listener.                           *)
C3_UnchangedNotInvoked ==
    [][\A id \in Instances, l \in Listeners : NotInvokedUntouched(id, l)]_vars

\* the same, for the listeners registered once on the channel
C3_RegisteredOnce ==
    [][\A id \in Instances, l \in Listeners :
          Cardinality(Registrations(ChannelOf(last'.op), l, objs[id].cls)) = 1
          => NotInvokedUntouched(id, l)]_vars

----------------------------------------------------------------------------
\* this step is a connect call
ConnectStep == last'.op = "connect"

\* the call raised and the receiver lists are what they were
Rejected ==
    /\ last'.result # "ok"
    /\ UNCHANGED <<receivers, post_init_receivers, source_receivers>>

(* C4: registering the same listener a second time on the same channel for  *)
(* the same record type is rejected with an error and leaves the            *)
(* registrations as they were.                                              *)
C4_DuplicateRejected ==
    [][ConnectStep =>
          LET a == last'.args
          IN (/\ models_ready
              /\ a.sender \in Senders
              /\ Registrations(a.channel, a.receiver, a.sender) # {})
             => Rejected]_vars

----------------------------------------------------------------------------
\* the names declared on a record type
DeclaredNames(sender) ==
    {get_fields(sender)[n].name : n \in 1..Len(get_fields(sender))}

\* the declared fields of a record type that are relationship-reverse
ReverseNames(sender) ==
    {get_fields(sender)[n].name :
        n \in {k \in 1..Len(get_fields(sender)) : is_reverse_rel(get_fields(sender)[k])}}

\* the five ways the arguments of a connect call fail validation
FailsValidation(a) ==
    \/ ~models_ready
    \/ a.weak
    \/ a.sender \notin Senders
    \/ a.fields.given /\ a.fields.names \cap ReverseNames(a.sender) # {}
    \/ a.fields.given /\ a.fields.names \cap DeclaredNames(a.sender) = {}
    \/ ~a.fields.given /\ DeclaredNames(a.sender) \subseteq ReverseNames(a.sender)

(* C5: a connect call that fails validation (framework not ready, weak      *)
(* delivery requested, sender not a class, a relationship-reverse field     *)
(* named, empty resolved field set) raises and attaches nothing: the        *)
(* channel's proxies, the initialized-event primers and the source handlers *)
(* are what they were, and so are the instances and their snapshots.        *)
C5_FailedConnectAttachesNothing ==
    [][ConnectStep =>
          (FailsValidation(last'.args)
           => /\ Rejected
              /\ UNCHANGED <<models_ready, objs, hist, nconnect, nops>>)]_vars

\* a connect naming only unknown fields failed after a successful one, and
\* the channel still holds that one registration: its proxy, and its primer
\* and source handler after the receivers connected at import
C5_Witness ==
    /\ last.op = "connect"
    /\ last.args.fields = Names({"nope"})
    /\ last.result = "ValueError: fields must be non-empty"
    /\ Len(receivers["post_save_changed"]) = 1
    /\ Len(post_init_receivers) = 2
    /\ Len(source_receivers["post_save"]) = 2
    /\ source_receivers["pre_save"] = <<>>

----------------------------------------------------------------------------
(* C6: a connect call whose field list contains a name that is not a        *)
(* declared field of the record type is rejected with an error, also when   *)
(* the list contains other names that are valid.                            *)
C6_UnknownNameRejected ==
    [][ConnectStep =>
          LET a == last'.args
          IN (/\ a.sender \in Senders
              /\ a.fields.given
              /\ a.fields.names \ DeclaredNames(a.sender) # {})
             => Rejected]_vars

----------------------------------------------------------------------------
\* the tracked, loaded fields of listener l on channel ch for this instance
Compared(inst, ch, l) == Tracked(ch, l, inst.cls) \ inst.deferred

\* some compared field holds a raw value that stands for its snapshot's value
\* but is not that value, or not the raw value it had at initialization, which
\* stood for the same; and every compared field stands for its snapshot's value
RepresentationOnly(id, ch, l) ==
    LET inst == objs[id]
    IN /\ \E f \in Compared(inst, ch, l) :
             /\ normalized(f, inst.attrs[f]) = SnapshotValue(inst, <<ch, l>>, f)
             /\ \/ inst.attrs[f] # SnapshotValue(inst, <<ch, l>>, f)
                \/ /\ f \in hist[id].touched
                   /\ inst.attrs[f] # hist[id].attrs[f]
                   /\ normalized(f, inst.attrs[f]) = normalized(f, hist[id].attrs[f])
       /\ \A f \in Compared(inst, ch, l) :
             normalized(f, inst.attrs[f]) = SnapshotValue(inst, <<ch, l>>, f)

(* C7: comparison is made between normalized values. On a channel event,    *)
(* every reported pair holds two different logical values, the new one      *)
(* being the normalized current value; and a listener whose tracked fields  *)
(* differ from its snapshot in representation only (a textual timestamp     *)
(* against the equal structured one) is not invoked and keeps its snapshot. *)
C7_NormalizedComparison ==
    [][\A id \in Instances : SaveStep(id) =>
        LET ch == ChannelOf(last'.op)
            inst == objs[id]
        IN /\ \A n \in 1..Len(calls') :
                 \A f \in DOMAIN calls'[n].changed_fields :
                    LET pair == calls'[n].changed_fields[f]
                    IN /\ normalized(f, pair[1]) # normalized(f, pair[2])
                       /\ pair[2] = normalized(f, inst.attrs[f])
           /\ \A l \in Listeners :
                 RepresentationOnly(id, ch, l)
                 => /\ CallsTo(calls', l) = {}
                    /\ \A f \in Compared(inst, ch, l) :
                          SnapshotValue(objs'[id], <<ch, l>>, f) =
                              SnapshotValue(inst, <<ch, l>>, f)]_vars

\* a_datetime was the text of a timestamp at initialization, was then
\* assigned the equal datetime, the event fired and the listener tracking it
\* was not called
C7_Witness ==
    /\ last.op = "pre_save"
    /\ calls = <<>>
    /\ RegisteredBeforeInit("pre_save_changed", "func", "obj")
    /\ "a_datetime" \in Tracked("pre_save_changed", "func", "FakeModel")
    /\ hist["obj"].attrs["a_datetime"] = TextStamp
    /\ "a_datetime" \in hist["obj"].touched
    /\ objs["obj"].attrs["a_datetime"] = Stamp

----------------------------------------------------------------------------
\* this step changes a list held by instance id in place
MutateStep(id) ==
    /\ nops' = nops + 1
    /\ last'.op = "mutate"
    /\ last'.inst = id

(* C8: mutating in place a list held by a tracked field leaves every        *)
(* snapshot of the instance as it was, and on the next channel event a      *)
(* listener tracking the field is called with the pair (the content its     *)
(* snapshot recorded, the mutated content), which its snapshot then holds.  *)
C8_SnapshotIsolated ==
    [][\A id \in Instances :
        /\ MutateStep(id) =>
              /\ objs'[id].attrs # objs[id].attrs
              /\ \A ch \in Channels, l \in Listeners, f \in AllNames :
                    SnapshotValue(objs'[id], <<ch, l>>, f) =
                        SnapshotValue(objs[id], <<ch, l>>, f)
        /\ SaveStep(id) =>
              LET ch == ChannelOf(last'.op)
                  inst == objs[id]
              IN \A l \in Listeners : \A f \in Compared(inst, ch, l) :
                    (/\ type_of(inst.attrs[f]) = "list"
                     /\ SnapshotValue(inst, <<ch, l>>, f) # inst.attrs[f])
                    => /\ \E n \in CallsTo(calls', l) :
                             /\ f \in DOMAIN calls'[n].changed_fields
                             /\ calls'[n].changed_fields[f] =
                                   <<SnapshotValue(inst, <<ch, l>>, f), inst.attrs[f]>>
                       /\ SnapshotValue(objs'[id], <<ch, l>>, f) = inst.attrs[f]]_vars

\* the field held [] at initialization, the list was then appended to in
\* place, the event fired and the listener was called with ([], [1])
C8_Witness ==
    /\ last.op = "pre_save"
    /\ hist["obj"].attrs["another"] = "[]"
    /\ objs["obj"].attrs["another"] = "[1]"
    /\ Len(calls) = 1
    /\ calls[1].receiver = "func"
    /\ "another" \in DOMAIN calls[1].changed_fields
    /\ calls[1].changed_fields["another"] = <<"[]", "[1]">>

----------------------------------------------------------------------------
\* a deferred tracked field was assigned since the initialization and every
\* compared field stands for its snapshot's value
DeferredOnly(id, ch, l) ==
    /\ Tracked(ch, l, objs[id].cls) \cap objs[id].deferred \cap hist[id].touched # {}
    /\ \A f \in Compared(objs[id], ch, l) :
          normalized(f, objs[id].attrs[f]) = SnapshotValue(objs[id], <<ch, l>>, f)

(* C9: while an instance reports a field as deferred, after every step no   *)
(* snapshot of the instance has an entry for the field and no call made     *)
(* for the instance carries it in changed_fields; and an event fired when   *)
(* the only changes are to deferred fields does not invoke the listener.    *)
C9_DeferredExcluded ==
    [][\A id \in Instances :
        /\ \A key \in DOMAIN objs'[id].originals :
              DOMAIN objs'[id].originals[key] \cap objs'[id].deferred = {}
        /\ \A n \in 1..Len(calls') :
              calls'[n].instance = id
              => DOMAIN calls'[n].changed_fields \cap objs'[id].deferred = {}
        /\ SaveStep(id) =>
              \A l \in Listeners :
                 DeferredOnly(id, ChannelOf(last'.op), l) => CallsTo(calls', l) = {}]_vars

\* 'another' is deferred and tracked, it was assigned after initialization,
\* the event fired, the listener was not called and its snapshot holds the
\* other fields only
C9_Witness ==
    /\ last.op = "pre_save"
    /\ calls = <<>>
    /\ "another" \in objs["obj"].deferred
    /\ "another" \in hist["obj"].touched
    /\ "another" \in Tracked("pre_save_changed", "func", "FakeModel")
    /\ <<"pre_save_changed", "func">> \in DOMAIN objs["obj"].originals
    /\ DOMAIN objs["obj"].originals[<<"pre_save_changed", "func">>] = {"a_key"}

----------------------------------------------------------------------------
(* C10: a connect call made while the readiness flag is unset raises the    *)
(* not-ready error whatever its other arguments are and attaches nothing;   *)
(* once the flag is set no call raises it, and the calls whose other        *)
(* arguments are valid succeed and attach their proxy.                      *)
C10_NotReadyFirst ==
    [][ConnectStep =>
          LET a == last'.args
          IN IF ~models_ready
             THEN last'.result = "AppRegistryNotReady" /\ Rejected
             ELSE /\ last'.result # "AppRegistryNotReady"
                  /\ ~FailsValidation(a) =>
                        /\ last'.result = "ok"
                        /\ Len(receivers'[a.channel]) = Len(receivers[a.channel]) + 1]_vars

\* the flag is unset and a call asking for weak delivery, from a sender that
\* is not a class, naming an unknown field, got the not-ready error
C10_Witness ==
    /\ ~models_ready
    /\ last.op = "connect"
    /\ last.args.weak
    /\ last.args.sender \notin Senders
    /\ last.args.fields = Names({"nope"})
    /\ last.result = "AppRegistryNotReady"
    /\ \A c \in Channels : receivers[c] = <<>>

----------------------------------------------------------------------------
(* C11: a connect call whose field list names a relationship-reverse field  *)
(* (many-to-many, one-to-many, reverse relation) raises, also when it names *)
(* scalar fields with it, and attaches nothing; with the framework ready    *)
(* and no weak delivery asked the error is the reverse-related-fields one.  *)
(* A listener is invoked only through a registration that succeeded.        *)
C11_ReverseFieldRejected ==
    [][/\ ConnectStep =>
           LET a == last'.args
           IN (/\ a.sender \in Senders
               /\ a.fields.given
               /\ a.fields.names \cap ReverseNames(a.sender) # {})
              => /\ Rejected
                 /\ (models_ready /\ ~a.weak) =>
                       last'.result =
                         "ValueError: django-fieldsignals doesn't handle reverse related fields"
       /\ \A n \in 1..Len(calls') :
             Registrations(calls'[n].signal, calls'[n].receiver, calls'[n].sender) # {}]_vars

\* a call naming a_key and m2m raised the reverse-related-fields error and
\* the channel holds no registration
C11_Witness ==
    /\ last.op = "connect"
    /\ last.args.sender = "FakeModel"
    /\ last.args.fields = Names({"a_key", "m2m"})
    /\ last.result = "ValueError: django-fieldsignals doesn't handle reverse related fields"
    /\ \A c \in Channels : receivers[c] = <<>>
    /\ post_init_receivers = <<post_model_init_entry>>

----------------------------------------------------------------------------
\* the declared fields of a record type that are not relationship-reverse
ScalarNames(sender) == DeclaredNames(sender) \ ReverseNames(sender)

(* C12: a connect call with no field list, on a type that declares          *)
(* relationship-reverse fields, succeeds and its proxy tracks exactly the   *)
(* declared fields that are not relationship-reverse; on a channel event    *)
(* every such loaded field whose normalized value differs from the          *)
(* listener's snapshot is reported to it; and no relationship-reverse field *)
(* is in a snapshot or in a changed_fields.                                 *)
C12_DefaultFieldSet ==
    [][/\ ConnectStep =>
           LET a == last'.args
           IN (/\ models_ready /\ ~a.weak
               /\ a.sender \in Senders /\ ~a.fields.given
               /\ ReverseNames(a.sender) # {})
              => /\ last'.result = "ok"
                 /\ LET rs == receivers'[a.channel]
                        proxy == rs[Len(rs)].r
                    IN /\ Len(rs) = Len(receivers[a.channel]) + 1
                       /\ proxy._original_receiver = a.receiver
                       /\ {proxy._fields[k].name : k \in 1..Len(proxy._fields)}
                              = ScalarNames(a.sender)
       /\ \A id \in Instances :
             /\ SaveStep(id) =>
                   LET ch == ChannelOf(last'.op)
                       inst == objs[id]
                   IN \A l \in Listeners :
                         Registrations(ch, l, inst.cls) # {}
                         => \A f \in ScalarNames(inst.cls) \ inst.deferred :
                               normalized(f, inst.attrs[f]) # SnapshotValue(inst, <<ch, l>>, f)
                               => \E n \in CallsTo(calls', l) :
                                     f \in DOMAIN calls'[n].changed_fields
             /\ objs'[id].cls # None =>
                   /\ \A key \in DOMAIN objs'[id].originals :
                         DOMAIN objs'[id].originals[key] \cap ReverseNames(objs'[id].cls) = {}
                   /\ \A n \in 1..Len(calls') :
                         calls'[n].instance = id =>
                            DOMAIN calls'[n].changed_fields
                                \cap ReverseNames(objs'[id].cls) = {}]_vars

\* the listener was connected with no field list; after initialization the
\* m2m list was appended to and a_key assigned; the event reported a_key
\* only and the snapshot holds the three scalar fields that are not None
C12_Witness ==
    /\ last.op = "pre_save"
    /\ RegisteredBeforeInit("pre_save_changed", "func", "obj")
    /\ Tracked("pre_save_changed", "func", "FakeModel")
           = {"a_key", "another", "a_datetime"}
    /\ objs["obj"].attrs["m2m"] = "[1]"
    /\ hist["obj"].attrs["m2m"] = "[]"
    /\ Len(calls) = 1
    /\ DOMAIN calls[1].changed_fields = {"a_key"}
    /\ DOMAIN objs["obj"].originals[<<"pre_save_changed", "func">>] = {"a_key", "another"}

----------------------------------------------------------------------------
\* this step is an event on instance id, and so was the step before it, on
\* the same channel: no field changed in between
RepeatedEvent(id) ==
    /\ SaveStep(id)
    /\ last.op = last'.op
    /\ last.inst = id

(* C13: a channel event that directly follows an event of the same channel  *)
(* on the same instance, with no change in between, invokes no listener and *)
(* leaves the snapshots as they are: the second diff is empty.              *)
C13_SecondDiffEmpty ==
    [][\A id \in Instances :
          RepeatedEvent(id)
          => /\ calls' = <<>>
             /\ objs'[id].originals = objs[id].originals]_vars

\* a_key was assigned after initialization and the listener tracking it was
\* not called by the last event: an earlier event had delivered the change
C13_Witness ==
    /\ last.op = "pre_save"
    /\ calls = <<>>
    /\ RegisteredBeforeInit("pre_save_changed", "func", "obj")
    /\ "a_key" \in Tracked("pre_save_changed", "func", "FakeModel")
    /\ "a_key" \in hist["obj"].touched
    /\ hist["obj"].attrs["a_key"] = "a value"
    /\ objs["obj"].attrs["a_key"] = "another value"
    /\ <<"pre_save_changed", "func">> \in hist["obj"].diffed
    /\ SnapshotValue(objs["obj"], <<"pre_save_changed", "func">>, "a_key") = "another value"

----------------------------------------------------------------------------
\* the channels whose event this step fires
Fired ==
    IF last'.op = "save" THEN Channels
    ELSE IF last'.op \in {"pre_save", "post_save"} THEN {ChannelOf(last'.op)}
    ELSE {}

\* this step fires channel events on instance id
EventStep(id) ==
    /\ nops' = nops + 1
    /\ Fired # {}
    /\ last'.inst = id

CallsOn(cs, ch, l) == {n \in 1..Len(cs) : cs[n].signal = ch /\ cs[n].receiver = l}

\* another (channel, listener) pair is registered for the type and tracks a
\* field that (ch, l) tracks
OtherPairOverlaps(ch, l, sender) ==
    \E c \in Channels, l2 \in Listeners :
        /\ <<c, l2>> # <<ch, l>>
        /\ Tracked(c, l2, sender) \cap Tracked(ch, l, sender) # {}

\* the calls to l on channel ch are what l alone would get at its first event
\* since the initialization: one call with the tracked fields that differ
\* from their value at initialization, as (that value, the current value)
DeliveredAsIfAlone(id, ch, l) ==
    LET inst == objs[id]
        changed == {f \in Tracked(ch, l, inst.cls) :
                       normalized(f, inst.attrs[f]) # normalized(f, hist[id].attrs[f])}
        expected == [f \in changed |->
                       <<normalized(f, hist[id].attrs[f]), normalized(f, inst.attrs[f])>>]
    IN /\ \A n \in CallsOn(calls', ch, l) : calls'[n].changed_fields = expected
       /\ Cardinality(CallsOn(calls', ch, l)) = IF changed = {} THEN 0 ELSE 1

(* C14: registrations do not interfere. When (channel, listener) is         *)
(* registered once for the type, before the instance was initialized, and   *)
(* another pair (another listener on the channel, or the listener on the    *)
(* other channel) tracks some of the same fields, the first event of the    *)
(* channel since the initialization delivers to the listener exactly what   *)
(* it would get alone, whether or not the other pair was served before; and *)
(* an event leaves the snapshots of the channels it does not fire as they   *)
(* were.                                                                    *)
C14_NoInterference ==
    [][\A id \in Instances : EventStep(id) =>
        /\ \A ch \in Fired, l \in Listeners :
              (/\ RegisteredBeforeInit(ch, l, id)
               /\ Cardinality(Registrations(ch, l, objs[id].cls)) = 1
               /\ OtherPairOverlaps(ch, l, objs[id].cls)
               /\ hist[id].deferred = {}
               /\ <<ch, l>> \notin hist[id].diffed)
              => DeliveredAsIfAlone(id, ch, l)
        /\ \A ch \in Channels \ Fired, l \in Listeners, f \in AllNames :
              SnapshotValue(objs'[id], <<ch, l>>, f) = SnapshotValue(objs[id], <<ch, l>>, f)]_vars

\* func is registered on both channels, a_key was assigned after the
\* initialization, and one save delivered the same pair to func on the
\* before-persist channel and then on the after-persist channel
C14_Witness ==
    /\ last.op = "save"
    /\ Len(calls) = 2
    /\ calls[1].receiver = "func" /\ calls[1].signal = "pre_save_changed"
    /\ calls[2].receiver = "func" /\ calls[2].signal = "post_save_changed"
    /\ \A n \in 1..2 :
          calls[n].changed_fields = [a_key |-> <<"a value", "another value">>]

\* func and func2 are registered on one channel, a_key was assigned after the
\* initialization, and the event delivered the same pair to each
C14_TwoListeners ==
    /\ last.op = "pre_save"
    /\ Len(calls) = 2
    /\ calls[1].receiver # calls[2].receiver
    /\ \A n \in 1..2 :
          calls[n].changed_fields = [a_key |-> <<"a value", "another value">>]

----------------------------------------------------------------------------
(* C15: a listener of the after-persist channel is called with the          *)
(* instance, a non-empty changed_fields, and the creation flag and the      *)
(* data-store identifier of the post_save event, and nothing else of it; a  *)
(* listener of the before-persist channel is called with the instance and   *)
(* changed_fields, and no keyword of the pre_save event.                    *)
C15_ForwardedArguments ==
    [][\A id \in Instances :
        /\ \A created \in {"True", "False"} :
              PostSave(id, created)
              => \A n \in 1..Len(calls') :
                    /\ calls'[n].signal = "post_save_changed"
                    /\ calls'[n].instance = id
                    /\ calls'[n].sender = objs[id].cls
                    /\ DOMAIN calls'[n].changed_fields # {}
                    /\ calls'[n].kwargs = [created |-> created, using |-> "default"]
        /\ PreSave(id)
              => \A n \in 1..Len(calls') :
                    /\ calls'[n].signal = "pre_save_changed"
                    /\ calls'[n].instance = id
                    /\ calls'[n].sender = objs[id].cls
                    /\ DOMAIN calls'[n].changed_fields # {}
                    /\ calls'[n].kwargs = EmptyDict]_vars

\* the post_save event of a created row called the listener with the
\* changed a_key, created=True and the data store of the event
C15_Witness ==
    /\ last.op = "post_save"
    /\ Len(calls) = 1
    /\ calls[1].signal = "post_save_changed"
    /\ calls[1].instance = "obj"
    /\ calls[1].changed_fields = [a_key |-> <<"a value", "another value">>]
    /\ calls[1].kwargs = [created |-> "True", using |-> "default"]

----------------------------------------------------------------------------
\* this step is the initialized event of instance id
InitStep(id) ==
    /\ last'.op = "post_init"
    /\ last'.inst = id
    /\ ~objs[id].initialized

\* the primers attached for a record type
Primers(sender) ==
    {n \in 1..Len(post_init_receivers) : post_init_receivers[n].key.sender = sender}

(* C16: the initialized event invokes no listener; it writes into the       *)
(* snapshot of each primed (channel, listener) every loaded field of the    *)
(* primer whose normalized value is not None, so the diff it computed       *)
(* against the empty snapshot was not empty.                                *)
C16_InitializedOnlyPrimes ==
    [][\A id \in Instances : InitStep(id) =>
        /\ calls' = <<>>
        /\ objs[id].originals = EmptyDict
        /\ \A n \in Primers(objs[id].cls) :
              LET closure == post_init_receivers[n].r
                  key == <<closure.signal, closure.receiver>>
              IN \A k \in 1..Len(closure.fields) :
                    LET f == closure.fields[k].name
                    IN (f \notin objs[id].deferred
                        /\ normalized(f, objs[id].attrs[f]) # None)
                       => /\ key \in DOMAIN objs'[id].originals
                          /\ f \in DOMAIN objs'[id].originals[key]
                          /\ objs'[id].originals[key][f].val
                                = normalized(f, objs[id].attrs[f])]_vars

\* the initialized event wrote a_key and another into the snapshot of the
\* registered listener and called nobody
C16_Witness ==
    /\ last.op = "post_init"
    /\ calls = <<>>
    /\ Registrations("pre_save_changed", "func", "FakeModel") # {}
    /\ <<"pre_save_changed", "func">> \in DOMAIN objs["obj"].originals
    /\ {"a_key", "another"} \subseteq
           DOMAIN objs["obj"].originals[<<"pre_save_changed", "func">>]
    /\ SnapshotValue(objs["obj"], <<"pre_save_changed", "func">>, "a_key") = "a value"

----------------------------------------------------------------------------
\* what a diff against no snapshot reports for (ch, l): every compared field
\* whose normalized value is not None, with None for old value
FromNothing(inst, ch, l) ==
    [f \in {g \in Compared(inst, ch, l) : normalized(g, inst.attrs[g]) # None} |->
        <<None, normalized(f, inst.attrs[f])>>]

(* C17: on a channel event for an instance that has no snapshot for a       *)
(* registered (channel, listener), the listener is told every tracked       *)
(* loaded field whose normalized value is not None, each once and paired    *)
(* with old value None, and no other field; with one registration that is   *)
(* one call, or none when every such field is None. The snapshot then has   *)
(* entries for the reported fields only.                                    *)
C17_NoSnapshotReportsAll ==
    [][\A id \in Instances : SaveStep(id) =>
        LET ch == ChannelOf(last'.op)
            inst == objs[id]
        IN \A l \in Listeners :
              (/\ Registrations(ch, l, inst.cls) # {}
               /\ <<ch, l>> \notin DOMAIN inst.originals)
              => LET expected == FromNothing(inst, ch, l)
                     told == CallsTo(calls', l)
                 IN /\ \A f \in DOMAIN expected :
                          Cardinality({n \in told :
                              /\ f \in DOMAIN calls'[n].changed_fields
                              /\ calls'[n].changed_fields[f] = expected[f]}) = 1
                    /\ \A n \in told :
                          DOMAIN calls'[n].changed_fields \subseteq DOMAIN expected
                    /\ Cardinality(Registrations(ch, l, inst.cls)) = 1
                          => Cardinality(told) = IF DOMAIN expected = {} THEN 0 ELSE 1
                    /\ <<ch, l>> \in DOMAIN objs'[id].originals
                    /\ DOMAIN objs'[id].originals[<<ch, l>>] = DOMAIN expected]_vars

\* the listener was connected after the instance was initialized; the event
\* told it a_key and another with old value None, and not a_datetime, which
\* is None
C17_Witness ==
    /\ last.op = "pre_save"
    /\ objs["obj"].initialized
    /\ hist["obj"].nconnect = 0
    /\ Cardinality(Registrations("pre_save_changed", "func", "FakeModel")) = 1
    /\ objs["obj"].attrs["a_datetime"] = None
    /\ Len(calls) = 1
    /\ calls[1].changed_fields = [a_key |-> <<None, "a value">>,
                                   another |-> <<None, "something else">>]
    /\ DOMAIN objs["obj"].originals[<<"pre_save_changed", "func">>] = {"a_key", "another"}

----------------------------------------------------------------------------
\* the entry of a field in the snapshot of key, or that there is none
Entry(inst, key, f) ==
    IF key \in DOMAIN inst.originals /\ f \in DOMAIN inst.originals[key]
    THEN <<"entry", inst.originals[key][f].val>>
    ELSE <<"no entry">>

\* the step ran a diff of instance id for key over the loaded fields among
\* `names`: each such field has its normalized current value for snapshot
\* value afterwards; a field found different has an entry holding that
\* value; every other field has the entry, or the absence of one, it had
DiffDone(id, key, names) ==
    LET inst == objs[id]
        compared == names \ inst.deferred
    IN /\ \A f \in compared :
             SnapshotValue(objs'[id], key, f) = normalized(f, inst.attrs[f])
       /\ \A f \in FieldNames(inst.cls) :
             IF f \in compared /\ normalized(f, inst.attrs[f]) # SnapshotValue(inst, key, f)
             THEN Entry(objs'[id], key, f) = <<"entry", normalized(f, inst.attrs[f])>>
             ELSE Entry(objs'[id], key, f) = Entry(inst, key, f)

(* C18: after every diff, by the initialized event over the fields of each  *)
(* primer and by a channel event over the fields of the channel's proxies   *)
(* of each listener, the snapshot value (absent read as None) of each       *)
(* compared field is its normalized current value; an entry is written only *)
(* for a field found different and the other entries are left as they were. *)
C18_SnapshotHoldsCurrent ==
    [][\A id \in Instances :
        /\ InitStep(id) =>
              \A n \in Primers(objs[id].cls) :
                 LET closure == post_init_receivers[n].r
                 IN DiffDone(id, <<closure.signal, closure.receiver>>,
                             {closure.fields[k].name : k \in 1..Len(closure.fields)})
        /\ SaveStep(id) =>
              \A l \in Listeners :
                 Registrations(ChannelOf(last'.op), l, objs[id].cls) # {}
                 => DiffDone(id, <<ChannelOf(last'.op), l>>,
                             Tracked(ChannelOf(last'.op), l, objs[id].cls))]_vars

\* a_key was assigned after the initialization and the event stored it,
\* leaving the entry of another as the initialized event wrote it and
\* a_datetime, which is None, without an entry
C18_Witness ==
    /\ last.op = "pre_save"
    /\ RegisteredBeforeInit("pre_save_changed", "func", "obj")
    /\ Len(calls) = 1
    /\ DOMAIN calls[1].changed_fields = {"a_key"}
    /\ objs["obj"].attrs["a_datetime"] = None
    /\ Entry(objs["obj"], <<"pre_save_changed", "func">>, "a_key")
           = <<"entry", "another value">>
    /\ Entry(objs["obj"], <<"pre_save_changed", "func">>, "another")
           = <<"entry", "something else">>
    /\ Entry(objs["obj"], <<"pre_save_changed", "func">>, "a_datetime") = <<"no entry">>

----------------------------------------------------------------------------
(* C20: one before-persist or after-persist event on an instance invokes    *)
(* each listener registered on that channel for the type at most once,      *)
(* however many connect calls were made for the channel and the type.       *)
C20_AtMostOncePerEvent ==
    [][\A id \in Instances : SaveStep(id) =>
          \A l \in Listeners : Cardinality(CallsTo(calls', l)) <= 1]_vars

\* the same, for the listeners registered once on the channel
C20_RegisteredOnce ==
    [][\A id \in Instances : SaveStep(id) =>
          \A l \in Listeners :
             Cardinality(Registrations(ChannelOf(last'.op), l, objs[id].cls)) = 1
             => Cardinality(CallsTo(calls', l)) <= 1]_vars

\* the source handler of a channel is attached once for a type, however many
\* connect calls succeeded
C20_OneSourceHandler ==
    \A src \in {"pre_save", "post_save"}, sender \in Senders :
        Cardinality({n \in 1..Len(source_receivers[src]) :
                        source_receivers[src][n].key.sender = sender}) <= 1

----------------------------------------------------------------------------
(* C19: a listener that sends the source event of its channel again, for    *)
(* the same instance, from inside its callback and changes no field is not  *)
(* invoked again: the event of a created row makes at most one call to it,  *)
(* and no call to it comes from the event it sent (which says created is    *)
(* False).                                                                  *)
C19_NoNestedInvocation ==
    [][\A id \in Instances : PostSave(id, "True") =>
          \A l \in Resending :
             /\ Cardinality(CallsTo(calls', l)) <= 1
             /\ \A n \in CallsTo(calls', l) : calls'[n].kwargs.created = "True"]_vars

\* the same, for the listeners registered once on the channel
C19_RegisteredOnce ==
    [][\A id \in Instances : PostSave(id, "True") =>
          \A l \in Resending :
             Cardinality(Registrations("post_save_changed", l, objs[id].cls)) = 1
             => /\ Cardinality(CallsTo(calls', l)) <= 1
                /\ \A n \in CallsTo(calls', l) : calls'[n].kwargs.created = "True"]_vars

\* the resending listener, registered once, was called once for the changed
\* a_key: the event it sent from its body found nothing changed
C19_OneLevel ==
    /\ last.op = "post_save"
    /\ Cardinality(Registrations("post_save_changed", "resaver", "FakeModel")) = 1
    /\ Len(calls) = 1
    /\ calls[1].receiver = "resaver"
    /\ calls[1].kwargs.created = "True"
    /\ calls[1].changed_fields = [a_key |-> <<"a value", "another value">>]

----------------------------------------------------------------------------
\* the calls of the step made to a listener that raises
RaisingCalls(cs) == {n \in 1..Len(cs) : cs[n].receiver \in Raising}

(* C21: an exception raised by a listener during a channel event is not     *)
(* caught by the proxy, the channel's send or the source handler: the       *)
(* event ends with that exception as its outcome for the caller that sent   *)
(* it, the raising call is the last call of the event (no later listener    *)
(* runs, and a save that raised before the write sends no after-persist     *)
(* event), and an event in which no listener raised ends normally.          *)
C21_ExceptionPropagates ==
    [][\A id \in Instances :
          EventStep(id) =>
              IF RaisingCalls(calls') # {}
              THEN /\ last'.result = Called
                   /\ RaisingCalls(calls') = {Len(calls')}
              ELSE last'.result = "ok"]_vars

\* a before-persist or after-persist event in which the raising listener,
\* registered ahead of a returning listener on the same channel, was called
\* with the change: the event ended with Called and the other listener,
\* with the same change pending, was not called
C21_Witness ==
    /\ last.op \in {"pre_save", "post_save"}
    /\ last.result = Called
    /\ Len(calls) = 1
    /\ calls[1].receiver = "raising_func"
    /\ "a_key" \in DOMAIN calls[1].changed_fields
    /\ Registrations(calls[1].signal, "func", "FakeModel") # {}
    /\ Registrations(calls[1].signal, "raising_func", "FakeModel") # {}
    /\ SnapshotValue(objs["obj"], <<calls[1].signal, "func">>, "a_key")
           # objs["obj"].attrs["a_key"]

----------------------------------------------------------------------------
\* the snapshot an instance carries under a key, or the absence of one
Snapshot(inst, key) ==
    IF key \in DOMAIN inst.originals
    THEN <<"snapshot", inst.originals[key]>>
    ELSE <<"no snapshot">>

\* the (channel, listener) keys the primers of a record type write to
PrimedKeys(sender) ==
    {<<post_init_receivers[n].r.signal, post_init_receivers[n].r.receiver>> :
        n \in Primers(sender)}

(* C22: a lifecycle event for instance X changes only X's snapshots.  A     *)
(* channel event changes, of X's snapshots, only those of listeners         *)
(* registered on a fired channel for X's type, and calls listeners with X   *)
(* only; an initialized event changes only those of the listeners           *)
(* registered for X's type; the snapshots of every other instance, and X's  *)
(* snapshots under the channels not fired, are left as they were.           *)
C22_OnlyOwnSnapshots ==
    [][\A id \in Instances :
          /\ EventStep(id) =>
                /\ \A other \in Instances \ {id} :
                      objs'[other].originals = objs[other].originals
                /\ \A ch \in Channels, l \in Listeners :
                      (ch \notin Fired \/ Registrations(ch, l, objs[id].cls) = {})
                          => Snapshot(objs'[id], <<ch, l>>) = Snapshot(objs[id], <<ch, l>>)
                /\ \A n \in 1..Len(calls') : calls'[n].instance = id
          /\ InitStep(id) =>
                /\ \A other \in Instances \ {id} :
                      objs'[other].originals = objs[other].originals
                /\ \A ch \in Channels, l \in Listeners :
                      <<ch, l>> \notin PrimedKeys(objs[id].cls)
                          => Snapshot(objs'[id], <<ch, l>>) = Snapshot(objs[id], <<ch, l>>)
                /\ calls' = <<>>]_vars

\* two initialized instances with the same change pending; a channel event
\* for one of them delivered its change and moved its snapshot, while the
\* other's snapshot under the same key still holds the initial value, so its
\* own change is still to be told
C22_Witness ==
    /\ last.op \in {"pre_save", "post_save"}
    /\ last.inst = "obj"
    /\ Len(calls) = 1
    /\ calls[1].instance = "obj"
    /\ calls[1].changed_fields = [a_key |-> <<"a value", "another value">>]
    /\ objs["obj2"].initialized
    /\ objs["obj2"].attrs["a_key"] = "another value"
    /\ SnapshotValue(objs["obj"], <<calls[1].signal, "func">>, "a_key")
           = "another value"
    /\ SnapshotValue(objs["obj2"], <<calls[1].signal, "func">>, "a_key") = "a value"

====
